---- MODULE Spec2Model ----
(***************************************************************************)
(* Model of "PL task 3/handler.py": a dispatcher that validates and        *)
(* normalises three kinds of event (USER_SIGNUP, PAYMENT, FILE_UPLOAD) and *)
(* returns a {status, message, data, errors} envelope.                     *)
(*                                                                         *)
(* Python values are records [k, n, s]: k is the Python type, n the        *)
(* numeric payload, s the characters of a str (one-character strings).     *)
(*   "NoneType"          None                                              *)
(*   "bool"              n = 1 for True, 0 for False                       *)
(*   "int"               n is the value; "bigint" is an int whose          *)
(*                       magnitude exceeds the range of a double, n its    *)
(*                       sign                                              *)
(*   "float"             a finite double, n its value in units of 1/Scale; *)
(*                       "nan" and "inf" (n its sign) are the non-finite   *)
(*                       doubles                                           *)
(*   "str"               s its characters                                  *)
(*   "list", "dict"      containers (contents are never inspected in a     *)
(*                       field)                                            *)
(* An event is [k, f]: k its Python type and, for a dict, f the mapping    *)
(* from the keys present to their values.                                  *)
(***************************************************************************)
EXTENDS Integers, Sequences, FiniteSets, TLC

VARIABLES event, pc, response, raised

vars == <<event, pc, response, raised>>

\* ---------------------------------------------------------------- bounds
\* user ids range over -1 .. MaxUserId
MaxUserId == 1
\* file names carry 0 .. MaxPad blanks on each side
MaxPad == 1

\* ------------------------------------------------------- program constants
\* handler.py:164 and handler.py:166, the storage-class thresholds
StandardLimit == 1000000
StandardIaLimit == 50000000
\* Finite doubles are held in units of 1/Scale (four decimal places), one
\* place more than round(x, 3) keeps, so that rounding has work to do.
Scale == 10000
\* handler.py:106, 108, 109: round(x, 3) keeps thousandths; one thousandth in
\* units of 1/Scale
Milli == 10

\* ------------------------------------------------------------ Python values
Val(k, n, s) == [k |-> k, n |-> n, s |-> s]
None == Val("NoneType", 0, <<>>)
PyBool(b) == Val("bool", IF b THEN 1 ELSE 0, <<>>)
PyInt(n) == Val("int", n, <<>>)
PyBigInt(sign) == Val("bigint", sign, <<>>)
PyFloat(n) == Val("float", n, <<>>)
NaN == Val("nan", 0, <<>>)
Inf(sign) == Val("inf", sign, <<>>)
PyStr(s) == Val("str", 0, s)
List == Val("list", 0, <<>>)
Dict == Val("dict", 0, <<>>)

\* isinstance(v, int): bool is a subclass of int
isinstance_int(v) == v.k \in {"bool", "int", "bigint"}
\* isinstance(v, (int, float))
isinstance_int_float(v) == v.k \in {"bool", "int", "bigint", "float", "nan", "inf"}
\* isinstance(v, str)
isinstance_str(v) == v.k = "str"

\* v < 0 and v <= 0 for a number v (every comparison with nan is False)
LtZero(v) == v.k # "nan" /\ v.n < 0
LeZero(v) == v.k # "nan" /\ (IF v.k \in {"bigint", "inf"} THEN v.n < 0 ELSE v.n <= 0)
\* v < c for an int v and a non-negative int literal c
LtConst(v, c) == IF v.k = "bigint" THEN v.n < 0 ELSE v.n < c

\* ------------------------------------------------------------------ strings
Whitespace == {" ", "\t", "\n", "\r", "\f"}
UpperCase == <<"A", "B", "C", "D", "E", "F", "G", "H", "I", "J", "K", "L", "M",
               "N", "O", "P", "Q", "R", "S", "T", "U", "V", "W", "X", "Y", "Z">>
LowerCase == <<"a", "b", "c", "d", "e", "f", "g", "h", "i", "j", "k", "l", "m",
               "n", "o", "p", "q", "r", "s", "t", "u", "v", "w", "x", "y", "z">>

Swap(c, from, to) ==
    IF \E i \in 1..Len(from) : from[i] = c
    THEN to[CHOOSE i \in 1..Len(from) : from[i] = c]
    ELSE c

\* str.lower() and str.upper()
lower(s) == [i \in 1..Len(s) |-> Swap(s[i], UpperCase, LowerCase)]
upper(s) == [i \in 1..Len(s) |-> Swap(s[i], LowerCase, UpperCase)]

RECURSIVE lstrip(_)
lstrip(s) == IF s # <<>> /\ Head(s) \in Whitespace THEN lstrip(Tail(s)) ELSE s
RECURSIVE rstrip(_)
rstrip(s) ==
    IF s # <<>> /\ s[Len(s)] \in Whitespace
    THEN rstrip(SubSeq(s, 1, Len(s) - 1))
    ELSE s
\* str.strip()
strip(s) == rstrip(lstrip(s))

\* [^@\s]
EmailClass(c) == c # "@" /\ c \notin Whitespace
AllEmailClass(s, a, b) == \A i \in a..b : EmailClass(s[i])

\* ^[^@\s]+@[^@\s]+\.[^@\s]+ matched against s[1..e], the pattern's end at e
MatchUpTo(s, e) ==
    \E i \in 2..e : \E j \in (i + 2)..(e - 1) :
        /\ s[i] = "@"
        /\ s[j] = "."
        /\ AllEmailClass(s, 1, i - 1)
        /\ AllEmailClass(s, i + 1, j - 1)
        /\ AllEmailClass(s, j + 1, e)

\* re.match(pattern, email) is not None; "$" matches at the end of the string
\* and also just before a newline that ends the string
is_valid_email(s) ==
    \/ MatchUpTo(s, Len(s))
    \/ Len(s) >= 1 /\ s[Len(s)] = "\n" /\ MatchUpTo(s, Len(s) - 1)

\* ------------------------------------------------------------------ doubles
\* the integers nearest p/d (d > 0): both neighbours when p/d lies half way
Nearest(p, d) ==
    LET q == p \div d
        r == p % d
    IN  IF 2 * r < d THEN {q} ELSE IF 2 * r > d THEN {q + 1} ELSE {q, q + 1}

\* n/Scale is a dyadic rational, so the double holds it exactly
ExactDouble(n) == n % (Scale \div 16) = 0

\* float(v) for a number v in the range of a double
to_float(v) == IF v.k \in {"bool", "int"} THEN PyFloat(v.n * Scale) ELSE v

\* round(x, 3) for a double x.  Python rounds the exact binary value of x
\* correctly, ties to even.  A decimal n/Scale that lies half way between two
\* thousandths is a tie only when the double holds it exactly; otherwise the
\* double lies just above or just below and either neighbour may result.
round3(x) ==
    IF x.k # "float" THEN {x}
    ELSE IF 2 * (x.n % Milli) = Milli /\ ExactDouble(x.n)
    THEN LET q == x.n \div Milli
         IN  {PyFloat(Milli * (IF q % 2 = 0 THEN q ELSE q + 1))}
    ELSE {PyFloat(Milli * k) : k \in Nearest(x.n, Milli)}

\* round(amount * 0.02, 3): 0.02 is not a double, so the product is the double
\* nearest amount/50 up to rounding error, and a product half way between two
\* thousandths may round to either
mul_round3(amount) ==
    IF amount.k # "float" THEN {amount}
    ELSE {PyFloat(Milli * k) : k \in Nearest(amount.n, 50 * Milli)}

\* a - b for doubles a and b (b is nan, inf or finite as a is, being its fee)
float_sub(a, b) ==
    IF a.k = "float" /\ b.k = "float" THEN PyFloat(a.n - b.n) ELSE NaN

\* ---------------------------------------------------------------- envelope
EmptyData == [x \in {} |-> None]
NoResponse == [status |-> "none", message |-> "", data |-> EmptyData, errors |-> <<>>]

\* error_response(errors)
error_response(errors) ==
    [status |-> "error", message |-> "Validation failed",
     data |-> EmptyData, errors |-> errors]

\* what a call ends in: a returned envelope, or an exception that propagates
Return(envelope) == [raised |-> "none", response |-> envelope]
Raise(exception) == [raised |-> exception, response |-> NoResponse]

\* variant: the presence loop stops at the first absent field
MissingFieldsFirst(ev, required_fields) ==
    LET absent == SelectSeq(required_fields, LAMBDA field : field \notin DOMAIN ev.f)
    IN  IF absent = <<>> THEN <<>> ELSE <<"Missing field: " \o absent[1]>>

\* variant: presence decided by the value (event.get(field) is None)
MissingFieldsByValue(ev, required_fields) ==
    LET absent == SelectSeq(required_fields,
                            LAMBDA field : field \notin DOMAIN ev.f \/ ev.f[field] = None)
    IN  [i \in 1..Len(absent) |-> "Missing field: " \o absent[i]]

\* for field in required_fields: if field not in event: errors.append(...)
MissingFields(ev, required_fields) ==
    LET absent == SelectSeq(required_fields, LAMBDA field : field \notin DOMAIN ev.f)
    IN  [i \in 1..Len(absent) |-> "Missing field: " \o absent[i]]

\* variant: a check is skipped once an error has been recorded
AppendIfFirst(errors, failed, message) ==
    IF failed /\ errors = <<>> THEN Append(errors, message) ELSE errors

\* if failed: errors.append(message)
AppendIf(errors, failed, message) ==
    IF failed THEN Append(errors, message) ELSE errors

\* the three literal strings the dispatcher compares event["type"] with
USER_SIGNUP == <<"U", "S", "E", "R", "_", "S", "I", "G", "N", "U", "P">>
PAYMENT == <<"P", "A", "Y", "M", "E", "N", "T">>
FILE_UPLOAD == <<"F", "I", "L", "E", "_", "U", "P", "L", "O", "A", "D">>

\* ------------------------------------------------------------- USER_SIGNUP
Plans == {<<"f", "r", "e", "e">>, <<"p", "r", "o">>, <<"e", "d", "u">>}
WelcomePrefix ==
    <<"W", "e", "l", "c", "o", "m", "e", " ", "t", "o", " ", "t", "h", "e", " ">>
WelcomeSuffix == <<" ", "p", "l", "a", "n", "!">>

\* the conditions under which each field's error is appended
UserIdFails(user_id) == ~isinstance_int(user_id)
EmailFails(email) == ~isinstance_str(email) \/ ~is_valid_email(email.s)
PlanFails(plan) == ~isinstance_str(plan) \/ lower(plan.s) \notin Plans

SignupErrors(ev) ==
    LET e1 == AppendIf(<<>>, UserIdFails(ev.f["user_id"]), "user_id must be int")
        e2 == AppendIf(e1, EmailFails(ev.f["email"]), "Invalid email")
    IN  AppendIf(e2, PlanFails(ev.f["plan"]), "Invalid plan")

\* variant: the subject is built from the plan as given
SignupDataRaw(ev) ==
    [user_id |-> ev.f["user_id"],
     email |-> PyStr(lower(ev.f["email"].s)),
     plan |-> PyStr(lower(ev.f["plan"].s)),
     welcome_email_subject |-> PyStr(WelcomePrefix \o ev.f["plan"].s \o WelcomeSuffix)]

SignupData(ev) ==
    LET email == lower(ev.f["email"].s)
        plan == lower(ev.f["plan"].s)
    IN  [user_id |-> ev.f["user_id"],
         email |-> PyStr(email),
         plan |-> PyStr(plan),
         welcome_email_subject |-> PyStr(WelcomePrefix \o plan \o WelcomeSuffix)]

\* variant: the second "if errors" guard is missing
handle_user_signup_unguarded(ev) ==
    LET missing == MissingFields(ev, <<"user_id", "email", "plan">>)
    IN  IF missing # <<>> THEN {Return(error_response(missing))}
        ELSE {Return(error_response(SignupErrors(ev)))}

handle_user_signup(ev) ==
    LET missing == MissingFields(ev, <<"user_id", "email", "plan">>)
    IN  IF missing # <<>> THEN {Return(error_response(missing))}
        ELSE IF SignupErrors(ev) # <<>>
        THEN {Return(error_response(SignupErrors(ev)))}
        ELSE {Return([status |-> "ok", message |-> "Signup processed",
                      data |-> SignupData(ev), errors |-> <<>>])}

\* ----------------------------------------------------------------- PAYMENT
Currencies == {<<"B", "H", "D">>, <<"U", "S", "D">>, <<"E", "U", "R">>}

PaymentIdFails(payment_id) == ~isinstance_str(payment_id)
AmountFails(amount) == ~isinstance_int_float(amount) \/ LeZero(amount)
CurrencyFails(currency) ==
    ~isinstance_str(currency) \/ upper(currency.s) \notin Currencies

PaymentErrors(ev) ==
    LET e1 == AppendIf(<<>>, PaymentIdFails(ev.f["payment_id"]),
                       "payment_id must be string")
        e2 == AppendIf(e1, UserIdFails(ev.f["user_id"]), "user_id must be int")
        e3 == AppendIf(e2, AmountFails(ev.f["amount"]),
                       "amount must be positive number")
    IN  AppendIf(e3, CurrencyFails(ev.f["currency"]), "Invalid currency")

PaymentData(ev, amount, fee, net_amount) ==
    [payment_id |-> ev.f["payment_id"],
     user_id |-> ev.f["user_id"],
     amount |-> amount,
     currency |-> PyStr(upper(ev.f["currency"].s)),
     fee |-> fee,
     net_amount |-> net_amount]

\* amount = round(float(amount), 3); fee = round(amount * 0.02, 3);
\* net_amount = round(amount - fee, 3): the envelopes the arithmetic can give
PaymentOk(ev) ==
    UNION {UNION {{[status |-> "ok", message |-> "Payment processed",
                    data |-> PaymentData(ev, amount, fee, net_amount),
                    errors |-> <<>>] :
                      net_amount \in round3(float_sub(amount, fee))} :
                    fee \in mul_round3(amount)} :
            amount \in round3(to_float(ev.f["amount"]))}

\* float(amount) raises OverflowError for an int beyond the range of a double
handle_payment(ev) ==
    LET missing == MissingFields(ev, <<"payment_id", "user_id", "amount", "currency">>)
    IN  IF missing # <<>> THEN {Return(error_response(missing))}
        ELSE IF PaymentErrors(ev) # <<>>
        THEN {Return(error_response(PaymentErrors(ev)))}
        ELSE IF ev.f["amount"].k = "bigint" THEN {Raise("OverflowError")}
        ELSE {Return(envelope) : envelope \in PaymentOk(ev)}

\* ------------------------------------------------------------- FILE_UPLOAD
FileNameFails(file_name) == ~isinstance_str(file_name)
SizeBytesFails(size_bytes) == ~isinstance_int(size_bytes) \/ LtZero(size_bytes)
BucketFails(bucket) == ~isinstance_str(bucket)
UploaderFails(uploader) == ~isinstance_str(uploader) \/ ~is_valid_email(uploader.s)

UploadErrors(ev) ==
    LET e1 == AppendIf(<<>>, FileNameFails(ev.f["file_name"]),
                       "file_name must be string")
        e2 == AppendIf(e1, SizeBytesFails(ev.f["size_bytes"]),
                       "size_bytes must be >= 0")
        e3 == AppendIf(e2, BucketFails(ev.f["bucket"]), "bucket must be string")
    IN  AppendIf(e3, UploaderFails(ev.f["uploader"]), "Invalid uploader email")

\* variant: the thresholds compared with <=
storage_class_inclusive(size_bytes) ==
    IF LtConst(size_bytes, StandardLimit + 1) THEN "STANDARD"
    ELSE IF LtConst(size_bytes, StandardIaLimit + 1) THEN "STANDARD_IA"
    ELSE "GLACIER"

storage_class(size_bytes) ==
    IF LtConst(size_bytes, StandardLimit) THEN "STANDARD"
    ELSE IF LtConst(size_bytes, StandardIaLimit) THEN "STANDARD_IA"
    ELSE "GLACIER"

UploadData(ev) ==
    [file_name |-> PyStr(strip(ev.f["file_name"].s)),
     size_bytes |-> ev.f["size_bytes"],
     bucket |-> PyStr(lower(ev.f["bucket"].s)),
     uploader |-> PyStr(lower(ev.f["uploader"].s)),
     storage_class |-> storage_class(ev.f["size_bytes"])]

handle_file_upload(ev) ==
    LET missing == MissingFields(ev, <<"file_name", "size_bytes", "bucket", "uploader">>)
    IN  IF missing # <<>> THEN {Return(error_response(missing))}
        ELSE IF UploadErrors(ev) # <<>>
        THEN {Return(error_response(UploadErrors(ev)))}
        ELSE {Return([status |-> "ok", message |-> "Upload processed",
                      data |-> UploadData(ev), errors |-> <<>>])}

\* --------------------------------------------------------------- dispatcher
\* variant: event.get("type", "USER_SIGNUP")
EventTypeDefault(ev) == IF "type" \in DOMAIN ev.f THEN ev.f["type"] ELSE PyStr(USER_SIGNUP)

\* event.get("type")
EventType(ev) == IF "type" \in DOMAIN ev.f THEN ev.f["type"] ELSE None

\* handler(event, context): the outcomes of one call
handler(ev) ==
    IF ev.k # "dict" THEN {Return(error_response(<<"Invalid JSON structure">>))}
    ELSE IF EventType(ev) = PyStr(USER_SIGNUP) THEN handle_user_signup(ev)
    ELSE IF EventType(ev) = PyStr(PAYMENT) THEN handle_payment(ev)
    ELSE IF EventType(ev) = PyStr(FILE_UPLOAD) THEN handle_file_upload(ev)
    ELSE {Return(error_response(<<"Unknown event type">>))}

\* ------------------------------------------------------------------ events
\* a field left out of the mapping (not a Python value)
Absent == Val("absent", 0, <<>>)

\* the dict {"type": type, keys[i]: vals[i], ...} without the Absent entries
Mapping(type, keys, vals) ==
    LET present == {i \in 1..Len(keys) : vals[i] # Absent}
        dom == {keys[i] : i \in present} \cup (IF type # Absent THEN {"type"} ELSE {})
    IN  [k |-> "dict",
         f |-> [key \in dom |->
                  IF key = "type" THEN type
                  ELSE vals[CHOOSE i \in present : keys[i] = key]]]

NonMapping(k) == [k |-> k, f |-> EmptyData]

OrAbsent(S) == S \cup {Absent}

UserIdValues ==
    {PyInt(n) : n \in -1..MaxUserId}
        \cup {PyBool(TRUE), PyBool(FALSE), None, PyStr(<<"x">>), PyFloat(Scale), PyBigInt(1)}
EmailValues ==
    {PyStr(<<"A", "@", "B", ".", "C", "O", "M">>),
     PyStr(<<"a", "@", "b", ".", "c", ".", "d">>),
     PyStr(<<"a", "@", "b">>),
     PyStr(<<"a", " ", "b", "@", "c", ".", "d">>),
     PyStr(<<"a", "@", "b", ".", "c", "\n">>),
     PyStr(<<"@", "b", ".", "c">>),
     PyStr(<<"a", "@", "b", "@", "c", ".", "d">>),
     PyStr(<<>>),
     None,
     PyInt(1)}
PlanValues ==
    {PyStr(<<"F", "R", "E", "E">>),
     PyStr(<<"p", "r", "o">>),
     PyStr(<<"E", "d", "u">>),
     PyStr(<<"g", "o", "l", "d">>),
     PyStr(<<>>),
     None,
     PyBool(TRUE)}
PaymentIdValues ==
    {PyStr(<<"p", "1">>),
     PyStr(<<>>),
     PyInt(123),
     None}
AmountValues ==
    {PyInt(n) : n \in {-5, 0, 1, 100}}
        \cup {PyFloat(n) : n \in {-15000, 0, 1, 5, 250, 625, 1875, 10005, 12345, 31250}}
        \cup {PyBool(TRUE), PyBool(FALSE), None, PyStr(<<"1", "0">>),
              PyBigInt(1), PyBigInt(-1), NaN, Inf(1), Inf(-1)}
CurrencyValues ==
    {PyStr(<<"u", "s", "d">>),
     PyStr(<<"B", "H", "D">>),
     PyStr(<<"E", "u", "r">>),
     PyStr(<<"X", "X", "X">>),
     PyStr(<<>>),
     None,
     PyInt(1)}
Blanks(n) == [i \in 1..n |-> " "]
FileNameValues ==
    {PyStr(Blanks(l) \o <<"a", " ", "B">> \o Blanks(r)) : l \in 0..MaxPad, r \in 0..MaxPad}
        \cup {PyStr(<<" ", "\t">>), None, PyInt(1)}
SizeBytesValues ==
    {PyInt(n) : n \in {-1, 0, StandardLimit - 1, StandardLimit,
                       StandardIaLimit - 1, StandardIaLimit}}
        \cup {PyBool(TRUE), PyBool(FALSE), None, PyStr(<<"1">>), PyFloat(Scale),
              PyBigInt(1), PyBigInt(-1)}
BucketValues ==
    {PyStr(<<"M", "y", "-", "B">>),
     PyStr(<<>>),
     None,
     PyInt(1)}
UploaderValues ==
    {PyStr(<<"A", "@", "B", ".", "C", "O", "M">>),
     PyStr(<<"a", "@", "b">>),
     PyStr(<<"a", "@", "b", ".", "c", "\n">>),
     PyStr(<<" ", "a", "@", "b", ".", "c">>),
     None}
OtherTypeValues ==
    {PyStr(<<"u", "s", "e", "r", "_", "s", "i", "g", "n", "u", "p">>),
     PyStr(<<"R", "E", "F", "U", "N", "D">>),
     PyStr(<<"P", "A", "Y", "M", "E", "N", "T", " ">>),
     PyStr(<<>>),
     None,
     PyInt(1),
     PyBool(TRUE),
     List,
     Dict,
     Absent}

SignupEvents ==
    {Mapping(PyStr(USER_SIGNUP), <<"user_id", "email", "plan">>, <<u, e, p>>) :
        u \in OrAbsent(UserIdValues), e \in OrAbsent(EmailValues),
        p \in OrAbsent(PlanValues)}

PaymentEvents ==
    {Mapping(PyStr(PAYMENT), <<"payment_id", "user_id", "amount", "currency">>,
             <<p, u, a, c>>) :
        p \in OrAbsent(PaymentIdValues), u \in OrAbsent(UserIdValues),
        a \in OrAbsent(AmountValues), c \in OrAbsent(CurrencyValues)}

UploadEvents ==
    {Mapping(PyStr(FILE_UPLOAD), <<"file_name", "size_bytes", "bucket", "uploader">>,
             <<n, s, b, u>>) :
        n \in OrAbsent(FileNameValues), s \in OrAbsent(SizeBytesValues),
        b \in OrAbsent(BucketValues), u \in OrAbsent(UploaderValues)}

\* mappings whose type is absent or is not one of the three literals, holding
\* no other field, or the fields of a well-formed signup or payment
OtherEvents ==
    {Mapping(t, <<"user_id", "email", "plan", "payment_id", "amount", "currency">>,
             <<u, e, e, p, a, a>>) :
        t \in OtherTypeValues,
        u \in {Absent, PyInt(1)},
        e \in {Absent, PyStr(<<"f", "r", "e", "e">>)},
        p \in {Absent, PyStr(<<"p", "1">>)},
        a \in {Absent, PyInt(100)}}

NonMappingEvents ==
    {NonMapping(k) : k \in {"NoneType", "bool", "int", "float", "str", "list"}}

Events ==
    SignupEvents \cup PaymentEvents \cup UploadEvents \cup OtherEvents
        \cup NonMappingEvents

\* ----------------------------------------------------------- state machine
\* pc: "call" before handler(event, context) runs, then "returned" when it
\* returned an envelope (response) or "raised" when an exception left it
Init ==
    /\ event \in Events
    /\ pc = "call"
    /\ response = NoResponse
    /\ raised = "none"

\* one call of handler on the event
Call ==
    /\ pc = "call"
    /\ \E outcome \in handler(event) :
        /\ pc' = IF outcome.raised = "none" THEN "returned" ELSE "raised"
        /\ response' = outcome.response
        /\ raised' = outcome.raised
    /\ UNCHANGED event

\* handler.py:10-11
InvalidStructure == event.k # "dict" /\ Call
\* handler.py:15-16
UserSignup == event.k = "dict" /\ EventType(event) = PyStr(USER_SIGNUP) /\ Call
\* handler.py:17-18
Payment == event.k = "dict" /\ EventType(event) = PyStr(PAYMENT) /\ Call
\* handler.py:19-20
FileUpload == event.k = "dict" /\ EventType(event) = PyStr(FILE_UPLOAD) /\ Call
\* handler.py:21-22
UnknownType ==
    /\ event.k = "dict"
    /\ EventType(event) \notin {PyStr(USER_SIGNUP), PyStr(PAYMENT), PyStr(FILE_UPLOAD)}
    /\ Call

Next == InvalidStructure \/ UserSignup \/ Payment \/ FileUpload \/ UnknownType

Spec == Init /\ [][Next]_vars

\* ================================================================== claims
Called == pc # "call"
Returned == pc = "returned"
IsMapping == event.k = "dict"
TypeIs(type) == IsMapping /\ "type" \in DOMAIN event.f /\ event.f["type"] = PyStr(type)
Has(fields) == fields \subseteq DOMAIN event.f
Field(name) == event.f[name]
Chars(v) == v.s
InErrors(message) == \E i \in 1..Len(response.errors) : response.errors[i] = message
\* <<message>> when the condition holds, else nothing
When(condition, message) == IF condition THEN <<message>> ELSE <<>>

SignupFields == {"user_id", "email", "plan"}
PaymentFields == {"payment_id", "user_id", "amount", "currency"}
UploadFields == {"file_name", "size_bytes", "bucket", "uploader"}

\* C1: in every envelope handler returns, status is "ok" exactly when errors
\* is empty, and data is empty exactly when status is "error".
C1_EnvelopeInvariant ==
    Returned =>
        /\ response.status \in {"ok", "error"}
        /\ (response.status = "ok") <=> (Len(response.errors) = 0)
        /\ (DOMAIN response.data = {}) <=> (response.status = "error")

C1_Witness ==
    /\ Returned
    /\ response.status = "error"
    /\ Len(response.errors) = 4
    /\ DOMAIN response.data = {}

\* C2: with every required field present, a boolean user_id (signup, payment)
\* yields "user_id must be int", a boolean size_bytes (upload) yields
\* "size_bytes must be >= 0" and a boolean amount (payment) yields "amount must
\* be positive number", each with status "error".
C2_BooleansRejected ==
    Called =>
        /\ (TypeIs(USER_SIGNUP) \/ TypeIs(PAYMENT)) /\ Has({"user_id"})
             /\ Has(IF TypeIs(PAYMENT) THEN PaymentFields ELSE SignupFields)
             /\ Field("user_id").k = "bool"
           => Returned /\ response.status = "error" /\ InErrors("user_id must be int")
        /\ TypeIs(FILE_UPLOAD) /\ Has(UploadFields) /\ Field("size_bytes").k = "bool"
           => Returned /\ response.status = "error" /\ InErrors("size_bytes must be >= 0")
        /\ TypeIs(PAYMENT) /\ Has(PaymentFields) /\ Field("amount").k = "bool"
           => Returned /\ response.status = "error"
                /\ InErrors("amount must be positive number")

\* C3: an event that is not a mapping returns status "error" with errors
\* exactly <<"Invalid JSON structure">>; a mapping whose type is absent or is
\* not exactly "USER_SIGNUP", "PAYMENT" or "FILE_UPLOAD" returns status "error"
\* with errors exactly <<"Unknown event type">>, whatever else it holds.
C3_StructuralFailures ==
    Called =>
        /\ ~IsMapping
           => Returned /\ response.status = "error"
                /\ response.errors = <<"Invalid JSON structure">>
        /\ IsMapping /\ ~TypeIs(USER_SIGNUP) /\ ~TypeIs(PAYMENT) /\ ~TypeIs(FILE_UPLOAD)
           => Returned /\ response.status = "error"
                /\ response.errors = <<"Unknown event type">>

C3_Witness ==
    /\ Returned
    /\ IsMapping
    /\ "type" \notin DOMAIN event.f
    /\ Has(SignupFields)
    /\ response.errors = <<"Unknown event type">>

\* C4: when a required field of the event's validator is absent, the errors
\* are exactly "Missing field: <name>" for each absent required field, in the
\* validator's field order, and status is "error", whatever the fields that
\* are present hold.
C4_MissingFieldsOnly ==
    Called =>
        /\ TypeIs(USER_SIGNUP) /\ ~Has(SignupFields)
           => Returned /\ response.status = "error"
                /\ response.errors =
                       When(~Has({"user_id"}), "Missing field: user_id")
                    \o When(~Has({"email"}), "Missing field: email")
                    \o When(~Has({"plan"}), "Missing field: plan")
        /\ TypeIs(PAYMENT) /\ ~Has(PaymentFields)
           => Returned /\ response.status = "error"
                /\ response.errors =
                       When(~Has({"payment_id"}), "Missing field: payment_id")
                    \o When(~Has({"user_id"}), "Missing field: user_id")
                    \o When(~Has({"amount"}), "Missing field: amount")
                    \o When(~Has({"currency"}), "Missing field: currency")
        /\ TypeIs(FILE_UPLOAD) /\ ~Has(UploadFields)
           => Returned /\ response.status = "error"
                /\ response.errors =
                       When(~Has({"file_name"}), "Missing field: file_name")
                    \o When(~Has({"size_bytes"}), "Missing field: size_bytes")
                    \o When(~Has({"bucket"}), "Missing field: bucket")
                    \o When(~Has({"uploader"}), "Missing field: uploader")

\* two fields absent, and a present field that is invalid
C4_Witness ==
    /\ Returned
    /\ TypeIs(PAYMENT)
    /\ Has({"user_id", "amount"})
    /\ Field("user_id") = PyStr(<<"x">>)
    /\ Field("amount") = PyInt(-5)
    /\ response.errors = <<"Missing field: payment_id", "Missing field: currency">>

\* the event's four (three, for a signup) checks in the validator's field
\* order: the error message of each and whether the check fails
Checks ==
    IF TypeIs(USER_SIGNUP) THEN
        <<[message |-> "user_id must be int", fails |-> UserIdFails(Field("user_id"))],
          [message |-> "Invalid email", fails |-> EmailFails(Field("email"))],
          [message |-> "Invalid plan", fails |-> PlanFails(Field("plan"))]>>
    ELSE IF TypeIs(PAYMENT) THEN
        <<[message |-> "payment_id must be string",
           fails |-> PaymentIdFails(Field("payment_id"))],
          [message |-> "user_id must be int", fails |-> UserIdFails(Field("user_id"))],
          [message |-> "amount must be positive number",
           fails |-> AmountFails(Field("amount"))],
          [message |-> "Invalid currency", fails |-> CurrencyFails(Field("currency"))]>>
    ELSE
        <<[message |-> "file_name must be string",
           fails |-> FileNameFails(Field("file_name"))],
          [message |-> "size_bytes must be >= 0",
           fails |-> SizeBytesFails(Field("size_bytes"))],
          [message |-> "bucket must be string", fails |-> BucketFails(Field("bucket"))],
          [message |-> "Invalid uploader email",
           fails |-> UploaderFails(Field("uploader"))]>>

AllPresent ==
    \/ TypeIs(USER_SIGNUP) /\ Has(SignupFields)
    \/ TypeIs(PAYMENT) /\ Has(PaymentFields)
    \/ TypeIs(FILE_UPLOAD) /\ Has(UploadFields)

\* the position of a message among the event's checks (0 when it is none)
CheckIndex(message) ==
    IF \E i \in 1..Len(Checks) : Checks[i].message = message
    THEN CHOOSE i \in 1..Len(Checks) : Checks[i].message = message
    ELSE 0

\* C5: for a returned event with every required field present, errors holds
\* one message for each field whose check fails and none for a field whose
\* check passes, in the validator's field order, and status is "ok" exactly
\* when no check fails; the PAYMENT event with payment_id 123, user_id "x",
\* amount -5 and currency "XXX" returns the four errors, one per field.
C5_AccumulateAll ==
    Returned /\ AllPresent =>
        /\ \A i \in 1..Len(Checks) : Checks[i].fails <=> InErrors(Checks[i].message)
        /\ Len(response.errors) = Cardinality({i \in 1..Len(Checks) : Checks[i].fails})
        /\ \A a, b \in 1..Len(response.errors) :
             a < b => 0 < CheckIndex(response.errors[a])
                        /\ CheckIndex(response.errors[a]) < CheckIndex(response.errors[b])
        /\ (response.status = "ok") <=> (\A i \in 1..Len(Checks) : ~Checks[i].fails)
        /\ TypeIs(PAYMENT) /\ Field("payment_id") = PyInt(123)
             /\ Field("user_id") = PyStr(<<"x">>) /\ Field("amount") = PyInt(-5)
             /\ Field("currency") = PyStr(<<"X", "X", "X">>)
           => response.status = "error"
                /\ response.errors = <<"payment_id must be string", "user_id must be int",
                                       "amount must be positive number", "Invalid currency">>

C5_Witness ==
    /\ Returned
    /\ TypeIs(PAYMENT)
    /\ Has(PaymentFields)
    /\ Field("payment_id") = PyInt(123)
    /\ Field("user_id") = PyStr(<<"x">>)
    /\ Field("amount") = PyInt(-5)
    /\ Field("currency") = PyStr(<<"X", "X", "X">>)
    /\ Len(response.errors) = 4

\* C6: handler never raises: every call ends in a returned envelope.
C6_NeverRaises == Called => pc = "returned" /\ raised = "none"

\* whether a valid size_bytes is below a threshold
SizeBelow(size_bytes, limit) == size_bytes.k # "bigint" /\ size_bytes.n < limit

\* C7: a FILE_UPLOAD event with every field present and valid returns "ok"
\* with size_bytes unchanged and storage_class "STANDARD" when size_bytes is
\* below 1,000,000, "STANDARD_IA" when it is at least 1,000,000 and below
\* 50,000,000, and "GLACIER" when it is at least 50,000,000.
C7_StorageClass ==
    Called /\ TypeIs(FILE_UPLOAD) /\ Has(UploadFields)
        /\ (\A i \in 1..Len(Checks) : ~Checks[i].fails) =>
        /\ Returned
        /\ response.status = "ok"
        /\ response.data.size_bytes = Field("size_bytes")
        /\ response.data.storage_class \in {"STANDARD", "STANDARD_IA", "GLACIER"}
        /\ (response.data.storage_class = "STANDARD")
             <=> SizeBelow(Field("size_bytes"), 1000000)
        /\ (response.data.storage_class = "STANDARD_IA")
             <=> (~SizeBelow(Field("size_bytes"), 1000000)
                    /\ SizeBelow(Field("size_bytes"), 50000000))
        /\ (response.data.storage_class = "GLACIER")
             <=> ~SizeBelow(Field("size_bytes"), 50000000)

C7_Witness ==
    /\ Returned
    /\ TypeIs(FILE_UPLOAD)
    /\ response.status = "ok"
    /\ Field("size_bytes") = PyInt(49999999)
    /\ response.data.storage_class = "STANDARD_IA"

\* out is s with each upper-case letter replaced by its lower-case letter
IsLowered(out, s) ==
    /\ Len(out) = Len(s)
    /\ \A i \in 1..Len(s) :
         /\ \A j \in 1..Len(UpperCase) : out[i] # UpperCase[j]
         /\ \/ out[i] = s[i]
            \/ \E j \in 1..Len(UpperCase) : s[i] = UpperCase[j] /\ out[i] = LowerCase[j]

\* C8: a USER_SIGNUP event that passes both phases returns status "ok",
\* message "Signup processed", no errors, and data with exactly the keys
\* user_id, email, plan, welcome_email_subject: user_id unchanged, email and
\* plan lowercased (plan one of free, pro, edu), and the subject "Welcome to
\* the <plan> plan!"; user_id 1, "A@B.COM", "FREE" gives "a@b.com", "free" and
\* "Welcome to the free plan!".
C8_SignupSuccess ==
    Called /\ TypeIs(USER_SIGNUP) /\ Has(SignupFields)
        /\ (\A i \in 1..Len(Checks) : ~Checks[i].fails) =>
        /\ Returned
        /\ response.status = "ok"
        /\ response.message = "Signup processed"
        /\ response.errors = <<>>
        /\ DOMAIN response.data = {"user_id", "email", "plan", "welcome_email_subject"}
        /\ response.data.user_id = Field("user_id")
        /\ response.data.email.k = "str"
        /\ IsLowered(Chars(response.data.email), Chars(Field("email")))
        /\ response.data.plan.k = "str"
        /\ IsLowered(Chars(response.data.plan), Chars(Field("plan")))
        /\ Chars(response.data.plan)
             \in {<<"f", "r", "e", "e">>, <<"p", "r", "o">>, <<"e", "d", "u">>}
        /\ response.data.welcome_email_subject =
             PyStr(<<"W", "e", "l", "c", "o", "m", "e", " ", "t", "o", " ", "t", "h", "e", " ">>
                   \o Chars(response.data.plan) \o <<" ", "p", "l", "a", "n", "!">>)
        /\ Field("user_id") = PyInt(1)
             /\ Field("email") = PyStr(<<"A", "@", "B", ".", "C", "O", "M">>)
             /\ Field("plan") = PyStr(<<"F", "R", "E", "E">>)
           => /\ response.data.email = PyStr(<<"a", "@", "b", ".", "c", "o", "m">>)
              /\ response.data.plan = PyStr(<<"f", "r", "e", "e">>)
              /\ response.data.welcome_email_subject =
                   PyStr(<<"W", "e", "l", "c", "o", "m", "e", " ", "t", "o", " ", "t", "h",
                           "e", " ", "f", "r", "e", "e", " ", "p", "l", "a", "n", "!">>)

C8_Witness ==
    /\ Returned
    /\ TypeIs(USER_SIGNUP)
    /\ Has(SignupFields)
    /\ Field("user_id") = PyInt(1)
    /\ Field("email") = PyStr(<<"A", "@", "B", ".", "C", "O", "M">>)
    /\ Field("plan") = PyStr(<<"F", "R", "E", "E">>)
    /\ response.status = "ok"

Abs(x) == IF x < 0 THEN -x ELSE x

\* out is s with each lower-case letter replaced by its upper-case letter
IsUppered(out, s) ==
    /\ Len(out) = Len(s)
    /\ \A i \in 1..Len(s) :
         /\ \A j \in 1..Len(LowerCase) : out[i] # LowerCase[j]
         /\ \/ out[i] = s[i]
            \/ \E j \in 1..Len(LowerCase) : s[i] = LowerCase[j] /\ out[i] = UpperCase[j]

\* the value of a finite number in ten-thousandths
TenThousandths(v) == IF v.k = "float" THEN v.n ELSE 10000 * v.n

\* what holds of every PAYMENT call: an amount that is a number and is 0 or
\* negative is rejected with "amount must be positive number"; in the data of
\* a success, currency is the given currency uppercased, amount is the given
\* amount rounded to a thousandth, fee is 2% of that amount rounded to a
\* thousandth, and net_amount is amount minus fee (for an infinite amount:
\* amount and fee infinite, net_amount not a number); amount 100 with currency
\* "usd" gives 100.0, 2.0, 98.0 and "USD"
PaymentDataHolds ==
    Called /\ TypeIs(PAYMENT) /\ Has(PaymentFields) =>
        /\ Field("amount").k \in {"int", "float"} /\ Field("amount").n <= 0
           => Returned /\ response.status = "error"
                /\ InErrors("amount must be positive number")
        /\ Returned /\ response.status = "ok"
           => /\ response.message = "Payment processed"
              /\ DOMAIN response.data =
                   {"payment_id", "user_id", "amount", "currency", "fee", "net_amount"}
              /\ response.data.currency.k = "str"
              /\ IsUppered(Chars(response.data.currency), Chars(Field("currency")))
        /\ Returned /\ response.status = "ok" /\ Field("amount").k \in {"bool", "int", "float"}
           => /\ TenThousandths(Field("amount")) > 0
              /\ response.data.amount.k = "float"
              /\ response.data.amount.n % 10 = 0
              /\ Abs(response.data.amount.n - TenThousandths(Field("amount"))) <= 5
              /\ response.data.fee.k = "float"
              /\ response.data.fee.n % 10 = 0
              /\ Abs(50 * response.data.fee.n - response.data.amount.n) <= 250
              /\ response.data.net_amount.k = "float"
              /\ response.data.net_amount.n = response.data.amount.n - response.data.fee.n
        /\ Returned /\ response.status = "ok" /\ Field("amount").k = "inf"
           => /\ response.data.amount = Inf(1)
              /\ response.data.fee = Inf(1)
              /\ response.data.net_amount = NaN
        /\ Returned /\ Field("payment_id") = PyStr(<<"p", "1">>)
             /\ Field("user_id") = PyInt(1) /\ Field("amount") = PyInt(100)
             /\ Field("currency") = PyStr(<<"u", "s", "d">>)
           => /\ response.status = "ok"
              /\ response.data.amount = PyFloat(1000000)
              /\ response.data.fee = PyFloat(20000)
              /\ response.data.net_amount = PyFloat(980000)
              /\ response.data.currency = PyStr(<<"U", "S", "D">>)

\* a PAYMENT event with every field present and valid: payment_id a string,
\* user_id an integer, amount a number strictly greater than 0, currency one
\* of BHD, USD, EUR in any case
ValidPayment ==
    /\ TypeIs(PAYMENT)
    /\ Has(PaymentFields)
    /\ Field("payment_id").k = "str"
    /\ Field("user_id").k \in {"int", "bigint"}
    /\ Field("amount").k \in {"int", "bigint", "float", "inf"}
    /\ Field("amount").n > 0
    /\ Field("currency").k = "str"
    /\ \E c \in {<<"B", "H", "D">>, <<"U", "S", "D">>, <<"E", "U", "R">>} :
         IsUppered(c, Chars(Field("currency")))

\* C9: every valid PAYMENT event (amount a number strictly greater than 0;
\* amount 0 and negative amounts are rejected) returns success data holding
\* currency uppercased, amount rounded to 3 decimal places, fee 2% of that
\* amount rounded to 3 decimal places and net_amount amount minus fee rounded
\* to 3 decimal places; amount 100 with "usd" gives 100.0, 2.0, 98.0, "USD".
C9_ValidPaymentData ==
    /\ PaymentDataHolds
    /\ Called /\ ValidPayment => Returned /\ response.status = "ok"

\* the required fields of the event's validator, in its order
FieldOrder ==
    IF TypeIs(USER_SIGNUP) THEN <<"user_id", "email", "plan">>
    ELSE IF TypeIs(PAYMENT) THEN <<"payment_id", "user_id", "amount", "currency">>
    ELSE <<"file_name", "size_bytes", "bucket", "uploader">>

\* a value of a type the field does not take: None, or any value that is not a
\* str for a string field, not an int for user_id and size_bytes, not an int
\* or a float for amount (in Python a bool is an int)
WronglyTyped(name, v) ==
    \/ v = None
    \/ name \in {"user_id", "size_bytes"} /\ v.k \notin {"bool", "int", "bigint"}
    \/ name = "amount" /\ v.k \notin {"bool", "int", "bigint", "float", "nan", "inf"}
    \/ name \notin {"user_id", "size_bytes", "amount"} /\ v.k # "str"

\* C10: a required field that is present, whatever its value, never produces
\* "Missing field: <name>"; with every required field present, a field whose
\* value is None or of the wrong type is reported by that field's type/content
\* error; USER_SIGNUP with user_id, email and plan all None returns exactly
\* "user_id must be int", "Invalid email", "Invalid plan".
C10_PresenceByKey ==
    Returned /\ (TypeIs(USER_SIGNUP) \/ TypeIs(PAYMENT) \/ TypeIs(FILE_UPLOAD)) =>
        /\ \A i \in 1..Len(FieldOrder) :
             Has({FieldOrder[i]}) => ~InErrors("Missing field: " \o FieldOrder[i])
        /\ AllPresent =>
             \A i \in 1..Len(FieldOrder) :
                WronglyTyped(FieldOrder[i], Field(FieldOrder[i]))
                    => response.status = "error" /\ InErrors(Checks[i].message)
        /\ TypeIs(USER_SIGNUP) /\ Has(SignupFields) /\ Field("user_id") = None
             /\ Field("email") = None /\ Field("plan") = None
           => response.errors = <<"user_id must be int", "Invalid email", "Invalid plan">>

C10_Witness ==
    /\ Returned
    /\ TypeIs(USER_SIGNUP)
    /\ Has(SignupFields)
    /\ Field("user_id") = None
    /\ Field("email") = None
    /\ Field("plan") = None
    /\ response.errors = <<"user_id must be int", "Invalid email", "Invalid plan">>

====
